---------------------------- MODULE Spec2Model ----------------------------
(***************************************************************************)
(* A model of the demobid ad exchange: the /bid handler (HandlerBid), the  *)
(* /auction orchestrator of src/main.go (HandlerAuction, its aggregator    *)
(* goroutine and its askDSP workers) and the earlier orchestrator of       *)
(* src/unnamed/part_000.                                                   *)
(*                                                                         *)
(* Numbers.  A float64 is modelled in fixed point: an integer counts units *)
(* of 1/Scale, with the values "NaN", "+Inf" and "-Inf" beside them.  A    *)
(* string is a sequence of one-character strings.                          *)
(***************************************************************************)
EXTENDS Integers, Sequences, FiniteSets, TLC

\* ------------------------------------------------------------ constants

\* const MaxDSP = 3
MaxDSP == 3


\* Capacity of the delivery channel: make(chan DspResult, 1).
QueueCap == 1

\* Capacity of the completion channel: make(chan struct{}, 1).
AllDoneCap == 1

\* rand.Intn(9): the exclusive upper end of the delay draw.
DelaySteps == 9

\* Timeout: 100 * time.Millisecond of the http.Client, in ms.
ClientTimeoutMs == 100

\* part_000: the loop of HandlerAuction runs while dspId < 4.
P0LoopEnd == 4

\* ------------------------------------------------------------ bounds

\* How many of RandSamples the random source may return.
NRand == 2

\* Longest query-parameter string drawn from Alphabet.
MaxLen == 2

\* ------------------------------------------------------------ strings

DigitChars == <<"0", "1", "2", "3", "4", "5", "6", "7", "8", "9">>

IsDigit(c) == \E i \in 1..10 : DigitChars[i] = c

DigitVal(c) == (CHOOSE i \in 1..10 : DigitChars[i] = c) - 1

DigitChar(d) == DigitChars[d + 1]

Abs(x) == IF x < 0 THEN -x ELSE x

RECURSIVE Pow10(_)
Pow10(n) == IF n = 0 THEN 1 ELSE 10 * Pow10(n - 1)

\* Fixed-point units per 1.0: the resolution of the model's float64.
Scale == Pow10(5)

\* The decimal digits of n >= 0, most significant first ("0" for 0).
RECURSIVE Itoa(_)
Itoa(n) ==
    IF n < 10 THEN <<DigitChar(n)>>
    ELSE Append(Itoa(n \div 10), DigitChar(n % 10))

\* n >= 0 written with exactly w digits, zero-padded on the left.
RECURSIVE PadDigits(_, _)
PadDigits(n, w) ==
    IF w = 0 THEN <<>>
    ELSE Append(PadDigits(n \div 10, w - 1), DigitChar(n % 10))

\* The value of a digit string of at most 9 digits.
RECURSIVE DigitsVal(_)
DigitsVal(ds) ==
    IF ds = <<>> THEN 0
    ELSE 10 * DigitsVal(SubSeq(ds, 1, Len(ds) - 1)) + DigitVal(ds[Len(ds)])

\* Decimal places the fixed point keeps.
ScaleDigits == Len(Itoa(Scale)) - 1

RECURSIVE StripZeros(_)
StripZeros(ds) ==
    IF ds # <<>> /\ ds[1] = "0" THEN StripZeros(Tail(ds)) ELSE ds

\* Lexicographic a > b for digit strings of the same length.
RECURSIVE LexGreater(_, _)
LexGreater(a, b) ==
    IF a = <<>> THEN FALSE
    ELSE IF DigitVal(a[1]) # DigitVal(b[1]) THEN DigitVal(a[1]) > DigitVal(b[1])
    ELSE LexGreater(Tail(a), Tail(b))

\* Numeric a > b for digit strings of any length.
DecGreater(a, b) ==
    LET x == StripZeros(a)
        y == StripZeros(b)
    IN  IF Len(x) # Len(y) THEN Len(x) > Len(y) ELSE LexGreater(x, y)

\* 1<<32 - 1, the largest value ParseUint(s, 10, 32) accepts.
MaxUint32Digits == <<"4", "2", "9", "4", "9", "6", "7", "2", "9", "5">>

\* A value of at least 10 digits is reported as this: it exceeds every
\* number the handlers compare it with.
SaturatedUint == Pow10(9)

\* strconv.ParseUint(s, 10, 32): the loop over the bytes of s.  ds holds the
\* digits read so far; a byte that is no digit is a syntax error, a value
\* past 1<<32 - 1 a range error, whichever comes first.
RECURSIVE ParseUintLoop(_, _)
ParseUintLoop(s, ds) ==
    IF s = <<>>
    THEN [err |-> "nil",
          val |-> IF Len(StripZeros(ds)) > 9 THEN SaturatedUint
                  ELSE DigitsVal(StripZeros(ds))]
    ELSE IF ~IsDigit(s[1]) THEN [err |-> "syntax", val |-> 0]
    ELSE IF DecGreater(Append(ds, s[1]), MaxUint32Digits)
    THEN [err |-> "range", val |-> SaturatedUint]
    ELSE ParseUintLoop(Tail(s), Append(ds, s[1]))

ParseUint(s) ==
    IF s = <<>> THEN [err |-> "syntax", val |-> 0] ELSE ParseUintLoop(s, <<>>)

\* ------------------------------------------------------------ float64

Fin(v) == [k |-> "fin", v |-> v]

NaN == [k |-> "nan", v |-> 0]

Inf(sign) == [k |-> "inf", v |-> sign]

UpperChars == <<"I", "N", "F", "A", "T", "Y">>

LowerChars == <<"i", "n", "f", "a", "t", "y">>

\* lower(c) of strconv, on the letters of the model.
Lower(c) ==
    IF \E i \in 1..Len(UpperChars) : UpperChars[i] = c
    THEN LowerChars[CHOOSE i \in 1..Len(UpperChars) : UpperChars[i] = c]
    ELSE c

\* strconv.commonPrefixLenIgnoreCase(s, prefix); prefix is lower case.
RECURSIVE CommonPrefixLenIgnoreCase(_, _)
CommonPrefixLenIgnoreCase(s, prefix) ==
    IF s = <<>> \/ prefix = <<>> \/ Lower(s[1]) # prefix[1] THEN 0
    ELSE 1 + CommonPrefixLenIgnoreCase(Tail(s), Tail(prefix))

InfinityChars == <<"i", "n", "f", "i", "n", "i", "t", "y">>

NanChars == <<"n", "a", "n">>

\* strconv.special(s): [ok, n, val], n the number of bytes consumed.  A
\* sign may precede "inf" or "infinity" and may not precede "nan".
Special(s) ==
    LET no == [ok |-> FALSE, n |-> 0, val |-> Fin(0)]
        signed == s[1] \in {"+", "-"}
        sign == IF s[1] = "-" THEN -1 ELSE 1
        rest == IF signed THEN Tail(s) ELSE s
        nsign == IF signed THEN 1 ELSE 0
        m == CommonPrefixLenIgnoreCase(rest, InfinityChars)
        n == IF 3 < m /\ m < 8 THEN 3 ELSE m
    IN  IF s = <<>> THEN no
        ELSE IF signed \/ Lower(s[1]) = "i"
        THEN IF n = 3 \/ n = 8
             THEN [ok |-> TRUE, n |-> nsign + n, val |-> Inf(sign)]
             ELSE no
        ELSE IF Lower(s[1]) = "n"
        THEN IF CommonPrefixLenIgnoreCase(s, NanChars) = 3
             THEN [ok |-> TRUE, n |-> 3, val |-> NaN]
             ELSE no
        ELSE no

\* strconv.readFloat's mantissa loop: digits with at most one "." among
\* them.  [ip, fp, sawdot, n]: the digits before and after the point and
\* the number of bytes consumed.
RECURSIVE ReadMantissa(_, _)
ReadMantissa(s, acc) ==
    IF s = <<>> THEN acc
    ELSE IF s[1] = "."
    THEN IF acc.sawdot THEN acc
         ELSE ReadMantissa(Tail(s), [acc EXCEPT !.sawdot = TRUE, !.n = @ + 1])
    ELSE IF IsDigit(s[1])
    THEN ReadMantissa(Tail(s),
             IF acc.sawdot
             THEN [acc EXCEPT !.fp = Append(@, s[1]), !.n = @ + 1]
             ELSE [acc EXCEPT !.ip = Append(@, s[1]), !.n = @ + 1])
    ELSE acc

\* The first ScaleDigits digits after the point, as units.
FracUnits(fp) ==
    LET kept == SubSeq(fp, 1, IF Len(fp) < ScaleDigits THEN Len(fp) ELSE ScaleDigits)
    IN  DigitsVal(kept) * Pow10(ScaleDigits - Len(kept))

\* strconv.ParseFloat(s, 64) on the decimal and the special forms: an
\* optional sign, digits with an optional point, or inf, infinity, nan.
\* Anything left over after the number is a syntax error.  (Exponents, hex
\* floats and underscores are spelled with characters outside Alphabet.)
ParseFloat(s) ==
    LET bad == [err |-> "syntax", val |-> Fin(0)]
        sp == Special(s)
        signed == s[1] \in {"+", "-"}
        sign == IF s[1] = "-" THEN -1 ELSE 1
        body == IF signed THEN Tail(s) ELSE s
        m == ReadMantissa(body, [ip |-> <<>>, fp |-> <<>>, sawdot |-> FALSE, n |-> 0])
    IN  IF s = <<>> THEN bad
        ELSE IF sp.ok
        THEN IF sp.n = Len(s) THEN [err |-> "nil", val |-> sp.val] ELSE bad
        ELSE IF m.ip = <<>> /\ m.fp = <<>> THEN bad
        ELSE IF m.n # Len(body) THEN bad
        ELSE [err |-> "nil",
              val |-> Fin(sign * (DigitsVal(StripZeros(m.ip)) * Scale + FracUnits(m.fp)))]

\* The offset taken off the floor instead of added to it.
FAddNegated(x, y) == IF x.k = "fin" THEN Fin(x.v - y) ELSE x

\* x + y for a float64 x and a finite y.
FAdd(x, y) == IF x.k = "fin" THEN Fin(x.v + y) ELSE x

\* v rounded to a multiple of step, halves away from zero (math.Round).
RoundHalfAway(v, step) ==
    LET a == Abs(v)
        q == (a + step \div 2) \div step
    IN  (IF v < 0 THEN -1 ELSE 1) * q * step

\* v >= 0 rounded to a multiple of step, halves to the even multiple
\* (strconv's decimal rounding of an exactly representable tie).
RoundHalfEven(v, step) ==
    LET q == v \div step
        r == v % step
    IN  IF 2 * r > step \/ (2 * r = step /\ q % 2 = 1) THEN (q + 1) * step
        ELSE q * step

\* math.Round(x*100) / 100.
Round2(x) ==
    IF x.k = "fin" THEN Fin(RoundHalfAway(x.v, Scale \div 100)) ELSE x

\* strconv.FormatFloat(v, 'f', 3, 64) for a finite v.
FormatFloat3(v) ==
    LET r == RoundHalfEven(Abs(v), Scale \div 1000)
        text == Itoa(r \div Scale) \o <<".">>
                    \o PadDigits((r % Scale) \div (Scale \div 1000), 3)
    IN  IF v < 0 THEN <<"-">> \o text ELSE text

RECURSIVE StripTrailingZeros(_)
StripTrailingZeros(ds) ==
    IF ds # <<>> /\ ds[Len(ds)] = "0"
    THEN StripTrailingZeros(SubSeq(ds, 1, Len(ds) - 1))
    ELSE ds

\* strconv.AppendFloat(b, v, 'f', -1, 64), the shortest decimal that reads
\* back as v: encoding/json's form of a float64 of ordinary size.
FormatShortest(v) ==
    LET a == Abs(v)
        fp == StripTrailingZeros(PadDigits(a % Scale, ScaleDigits))
        text == Itoa(a \div Scale) \o (IF fp = <<>> THEN <<>> ELSE <<".">> \o fp)
    IN  IF v < 0 THEN <<"-">> \o text ELSE text

\* ------------------------------------------------------------ /bid

\* A query holds the parameters dsp and p, either of them possibly missing.
Missing == <<"missing">>

NoQuery == [dsp |-> Missing, p |-> Missing]

\* url.Values.Get(key): the value of the parameter, "" when it is missing.
Get(query, key) == IF query[key] = Missing THEN <<>> ELSE query[key]

\* http.Error(w, text, code): a plain-text response, no price in it.
HttpError(text, code, computed) ==
    [status |-> code, body |-> [kind |-> "text", text |-> text],
     computed |-> computed]

\* json.Marshal(resp): encoding/json refuses a NaN or infinite float64.
Marshal(price) ==
    IF price.k = "fin"
    THEN [err |-> "nil", body |-> [kind |-> "json", price |-> FormatShortest(price.v)]]
    ELSE [err |-> "unsupported value", body |-> [kind |-> "json", price |-> <<>>]]

\* The check of dsp without its lower end.
BadDspNoLowerEnd(dsp) == dsp.err # "nil" \/ dsp.val > MaxDSP

\* The condition under which HandlerBid refuses the dsp parameter.
BadDsp(dsp) == dsp.err # "nil" \/ dsp.val > MaxDSP \/ dsp.val < 1

\* What HandlerBid writes for the decoded query: status, body and whether
\* a price was computed.  randFloat is what rand.Float64() returns, in
\* units of [0,1).  After a failed Marshal the handler does not return: the
\* 500 of http.Error stands and the Write of the nil body adds nothing.
BidAnswer(query, randFloat) ==
    LET dsp == ParseUint(Get(query, "dsp"))
        floor == ParseFloat(Get(query, "p"))
        price == Round2(FAdd(floor.val, randFloat * 100))
        m == Marshal(price)
    IN  IF BadDsp(dsp) THEN HttpError("bad dsp parameter", 400, FALSE)
        ELSE IF floor.err # "nil" THEN HttpError("bad p parameter", 400, FALSE)
        ELSE IF m.err # "nil" THEN HttpError(m.err, 500, TRUE)
        ELSE [status |-> 200, body |-> m.body, computed |-> TRUE]

\* A sleep of 10 to 100 ms, as the comment above the statement has it.
BidDelayToHundred(answer, randIntn) ==
    IF answer.computed THEN 10 * (randIntn + 2) ELSE 0

\* The sleep before the answer is written, in ms; randIntn is what
\* rand.Intn(9) returns.  A request refused with 400 returns before it.
BidDelay(answer, randIntn) ==
    IF answer.computed THEN 10 * (randIntn + 1) ELSE 0

\* HandlerBid: the answer and the delay it is written after.
HandlerBid(query, randFloat, randIntn) ==
    LET answer == BidAnswer(query, randFloat)
    IN  [status |-> answer.status, body |-> answer.body,
         computed |-> answer.computed, delay |-> BidDelay(answer, randIntn)]

\* url.QueryEscape on one character: letters, digits, "-", "." and "_"
\* stand for themselves, a space becomes "+", the rest is percent-encoded.
EscapeChar(c) ==
    IF c = " " THEN <<"+">>
    ELSE IF c = "+" THEN <<"%", "2", "B">>
    ELSE IF c = "," THEN <<"%", "2", "C">>
    ELSE <<c>>

RECURSIVE QueryEscape(_)
QueryEscape(s) ==
    IF s = <<>> THEN <<>> ELSE EscapeChar(s[1]) \o QueryEscape(Tail(s))

\* url.QueryUnescape, as r.URL.Query() applies it to each value.
RECURSIVE QueryUnescape(_)
QueryUnescape(s) ==
    IF s = <<>> THEN <<>>
    ELSE IF s[1] = "+" THEN <<" ">> \o QueryUnescape(Tail(s))
    ELSE IF s[1] = "%" /\ Len(s) >= 3 /\ SubSeq(s, 2, 3) = <<"2", "B">>
    THEN <<"+">> \o QueryUnescape(SubSeq(s, 4, Len(s)))
    ELSE IF s[1] = "%" /\ Len(s) >= 3 /\ SubSeq(s, 2, 3) = <<"2", "C">>
    THEN <<",">> \o QueryUnescape(SubSeq(s, 4, Len(s)))
    ELSE <<s[1]>> \o QueryUnescape(Tail(s))

\* makeBidURL(floor, dspId): the raw query of the /bid URL.
makeBidURL(floor, dspId) ==
    [p |-> QueryEscape(FormatFloat3(floor)), dsp |-> QueryEscape(Itoa(dspId))]

\* r.URL.Query() on a raw query.
Query(raw) ==
    [key \in DOMAIN raw |->
        IF raw[key] = Missing THEN Missing ELSE QueryUnescape(raw[key])]

\* json.Unmarshal(body, &resp) in askDSP: the price of a JSON body; any
\* other body (plain text, a body cut short) is an error.
Unmarshal(body) ==
    IF body.kind = "json" /\ ParseFloat(body.price).err = "nil"
    THEN [err |-> "nil", Price |-> ParseFloat(body.price).val.v]
    ELSE IF body.kind = "partial"
    THEN [err |-> "unexpected end of JSON input", Price |-> 0]
    ELSE [err |-> "invalid character", Price |-> 0]

\* ------------------------------------------------------------ state

VARIABLES
    build,       \* which source serves /auction: "main.go" or "part_000"
    rounds,      \* the /auction requests in progress (each its own call)
    pc,          \* HandlerAuction's position, per round
    floor,       \* its floor price
    dspId,       \* its loop variable
    wgDSP,       \* the counter of its sync.WaitGroup
    queue,       \* the buffer of its delivery channel
    closed,      \* whether close(queue) has run
    allDone,     \* the number of values in its allDone channel
    dspResults,  \* its collected results
    winner,      \* its winner
    agg,         \* the position of its aggregator goroutine
    wpc,         \* the position of each askDSP worker
    asked,       \* the raw query of the request each worker has issued
    wres,        \* the DspResult a worker is about to send
    werr,        \* the error a worker returns
    doneCalls,   \* how many times each worker has called wg.Done
    p0pc,        \* part_000: HandlerAuction's position
    p0dspId,     \* part_000: its loop variable
    p0wg,        \* part_000: the counter of its sync.WaitGroup
    p0wpc,       \* part_000: the position of each askDSP worker
    p0floor,     \* part_000: the floor price each worker drew
    p0asked,     \* part_000: the raw query each worker has issued
    p0doneCalls, \* part_000: how many times each worker has called wg.Done
    bidpc,       \* a /bid request: "idle", "received" or "answered"
    bidQuery,    \* its decoded query
    bidReply     \* the response HandlerBid gave it

aucVars == <<pc, floor, dspId, wgDSP, queue, closed, allDone, dspResults,
             winner, agg, wpc, asked, wres, werr, doneCalls>>

p0Vars == <<p0pc, p0dspId, p0wg, p0wpc, p0floor, p0asked, p0doneCalls>>

bidVars == <<bidpc, bidQuery, bidReply>>

vars == <<build, rounds, aucVars, p0Vars, bidVars>>

\* The rounds the model has room for, and the bidder identities.
AllRounds == {1, 2}

DSPs == 1..MaxDSP

NoReply ==
    [status |-> 0, body |-> [kind |-> "none"], computed |-> FALSE, delay |-> 0]

NoResult == [DSPId |-> 0, BidPrice |-> 0]

\* Values rand.Float64() may return, in units of [0,1): 0, 0.5004, 0.99999
\* and 0.25.  The floor is ten times, the price offset a hundred times one.
RandSamples == <<0, 50040, 99999, 25000>>

RandFloat64 == {RandSamples[i] : i \in 1..NRand}

\* Values rand.Intn(9) may return.
RandIntn == 0..(DelaySteps - 1)

\* The errors client.Get may return.
GetErrors == {"connection refused", "timeout"}

Init ==
    /\ build \in {"main.go", "part_000"}
    /\ rounds = {1}
    /\ pc = [r \in AllRounds |-> "Start"]
    /\ floor = [r \in AllRounds |-> 0]
    /\ dspId = [r \in AllRounds |-> 0]
    /\ wgDSP = [r \in AllRounds |-> 0]
    /\ queue = [r \in AllRounds |-> <<>>]
    /\ closed = [r \in AllRounds |-> FALSE]
    /\ allDone = [r \in AllRounds |-> 0]
    /\ dspResults = [r \in AllRounds |-> <<>>]
    /\ winner = [r \in AllRounds |-> NoResult]
    /\ agg = [r \in AllRounds |-> "none"]
    /\ wpc = [r \in AllRounds |-> [w \in DSPs |-> "none"]]
    /\ asked = [r \in AllRounds |-> [w \in DSPs |-> NoQuery]]
    /\ wres = [r \in AllRounds |-> [w \in DSPs |-> NoResult]]
    /\ werr = [r \in AllRounds |-> [w \in DSPs |-> "nil"]]
    /\ doneCalls = [r \in AllRounds |-> [w \in DSPs |-> 0]]
    /\ p0pc = "FanOut"
    /\ p0dspId = 1
    /\ p0wg = 0
    /\ p0wpc = [w \in DSPs |-> "none"]
    /\ p0floor = [w \in DSPs |-> 0]
    /\ p0asked = [w \in DSPs |-> NoQuery]
    /\ p0doneCalls = [w \in DSPs |-> 0]
    /\ bidpc = "idle"
    /\ bidQuery = NoQuery
    /\ bidReply = NoReply

\* ------------------------------------------------------------ sort.Sort

\* DspResults.Len, Less and Swap, on 1-based sequences.
DspResultsLen(b) == Len(b)

\* Less with the comparison the wrong way round.
LessReversed(b, i, j) == b[i].BidPrice > b[j].BidPrice

Less(b, i, j) == b[i].BidPrice < b[j].BidPrice

Swap(b, i, j) == [b EXCEPT ![i] = b[j], ![j] = b[i]]

\* sort.Sort on fewer than 12 elements is an insertion sort driven by Less
\* and Swap: element i moves down while it is Less than its predecessor.
RECURSIVE InsertDown(_, _)
InsertDown(b, j) ==
    IF j > 1 /\ Less(b, j, j - 1) THEN InsertDown(Swap(b, j, j - 1), j - 1)
    ELSE b

RECURSIVE InsertionSort(_, _)
InsertionSort(b, i) ==
    IF i > DspResultsLen(b) THEN b ELSE InsertionSort(InsertDown(b, i), i + 1)

Sort(b) == InsertionSort(b, 2)

\* ------------------------------------------------------------ /auction

\* HandlerAuction up to its loop: the floor price is drawn, the channels
\* are made and the aggregator goroutine is started.
Start(r) ==
    /\ build = "main.go"
    /\ pc[r] = "Start"
    /\ \E randFloat \in RandFloat64 : floor' = [floor EXCEPT ![r] = randFloat * 10]
    /\ dspResults' = [dspResults EXCEPT ![r] = <<>>]
    /\ queue' = [queue EXCEPT ![r] = <<>>]
    /\ allDone' = [allDone EXCEPT ![r] = 0]
    /\ agg' = [agg EXCEPT ![r] = "range"]
    /\ wgDSP' = [wgDSP EXCEPT ![r] = 0]
    /\ dspId' = [dspId EXCEPT ![r] = 1]
    /\ pc' = [pc EXCEPT ![r] = "FanOut"]
    /\ UNCHANGED <<build, rounds, closed, winner, wpc, asked, wres, werr,
                   doneCalls, p0Vars, bidVars>>

\* One turn of the loop: wgDSP.Add(1) and go func(dspId); after the last
\* turn the handler stands at wgDSP.Wait().
FanOut(r) ==
    /\ pc[r] = "FanOut"
    /\ dspId[r] < MaxDSP + 1
    /\ wgDSP' = [wgDSP EXCEPT ![r] = @ + 1]
    /\ wpc' = [wpc EXCEPT ![r][dspId[r]] = "start"]
    /\ dspId' = [dspId EXCEPT ![r] = @ + 1]
    /\ pc' = [pc EXCEPT ![r] = IF dspId[r] + 1 < MaxDSP + 1 THEN "FanOut" ELSE "Wait"]
    /\ UNCHANGED <<build, rounds, floor, queue, closed, allDone, dspResults,
                   winner, agg, asked, wres, werr, doneCalls, p0Vars, bidVars>>

\* A barrier that does not wait for the workers.
WaitReturnsAtOnce(r) == TRUE

\* The condition wgDSP.Wait() returns under.
WaitReturns(r) == wgDSP[r] = 0

\* wgDSP.Wait() returns.
Wait(r) ==
    /\ pc[r] = "Wait"
    /\ WaitReturns(r)
    /\ pc' = [pc EXCEPT ![r] = "Close"]
    /\ UNCHANGED <<build, rounds, floor, dspId, wgDSP, queue, closed, allDone,
                   dspResults, winner, agg, wpc, asked, wres, werr, doneCalls,
                   p0Vars, bidVars>>

\* close on a channel that all rounds share, as a package-level queue
\* would be.
CloseEvery(r) ==
    /\ pc[r] = "Close"
    /\ closed' = [s \in AllRounds |-> TRUE]
    /\ pc' = [pc EXCEPT ![r] = "AwaitDone"]
    /\ UNCHANGED <<build, rounds, floor, dspId, wgDSP, queue, allDone,
                   dspResults, winner, agg, wpc, asked, wres, werr, doneCalls,
                   p0Vars, bidVars>>

\* close(queue).
Close(r) ==
    /\ pc[r] = "Close"
    /\ closed' = [closed EXCEPT ![r] = TRUE]
    /\ pc' = [pc EXCEPT ![r] = "AwaitDone"]
    /\ UNCHANGED <<build, rounds, floor, dspId, wgDSP, queue, allDone,
                   dspResults, winner, agg, wpc, asked, wres, werr, doneCalls,
                   p0Vars, bidVars>>

\* <-allDone.
AwaitDone(r) ==
    /\ pc[r] = "AwaitDone"
    /\ allDone[r] > 0
    /\ allDone' = [allDone EXCEPT ![r] = @ - 1]
    /\ pc' = [pc EXCEPT ![r] = "Select"]
    /\ UNCHANGED <<build, rounds, floor, dspId, wgDSP, queue, closed,
                   dspResults, winner, agg, wpc, asked, wres, werr, doneCalls,
                   p0Vars, bidVars>>

\* The index dspResults[len(dspResults)-1] reads, 1-based.
WinnerIndex(b) == DspResultsLen(b)

\* The rest of the handler: the results are sorted in place and the last
\* is the winner.  Indexing an empty slice panics (index out of range);
\* net/http recovers the panic and the request ends without a result.
Select(r) ==
    /\ pc[r] = "Select"
    /\ dspResults' = [dspResults EXCEPT ![r] = Sort(@)]
    /\ IF WinnerIndex(dspResults'[r]) \in DOMAIN dspResults'[r]
       THEN /\ winner' = [winner EXCEPT ![r] = dspResults'[r][WinnerIndex(dspResults'[r])]]
            /\ pc' = [pc EXCEPT ![r] = "Done"]
       ELSE /\ winner' = winner
            /\ pc' = [pc EXCEPT ![r] = "Panicked"]
    /\ UNCHANGED <<build, rounds, floor, dspId, wgDSP, queue, closed, allDone,
                   agg, wpc, asked, wres, werr, doneCalls, p0Vars, bidVars>>

\* A turn of the range loop that takes a result and does not append it.
ReceiveAndDrop(r) ==
    /\ agg[r] = "range"
    /\ queue[r] # <<>>
    /\ queue' = [queue EXCEPT ![r] = Tail(@)]
    /\ UNCHANGED <<build, rounds, pc, floor, dspId, wgDSP, closed, allDone,
                   dspResults, winner, agg, wpc, asked, wres, werr, doneCalls,
                   p0Vars, bidVars>>

\* A turn of the range loop that puts the result in front of the others.
ReceiveInFront(r) ==
    /\ agg[r] = "range"
    /\ queue[r] # <<>>
    /\ dspResults' = [dspResults EXCEPT ![r] = <<Head(queue[r])>> \o @]
    /\ queue' = [queue EXCEPT ![r] = Tail(@)]
    /\ UNCHANGED <<build, rounds, pc, floor, dspId, wgDSP, closed, allDone,
                   winner, agg, wpc, asked, wres, werr, doneCalls, p0Vars,
                   bidVars>>

\* The aggregator goroutine: one turn of for dspRes := range queue.
Receive(r) ==
    /\ agg[r] = "range"
    /\ queue[r] # <<>>
    /\ dspResults' = [dspResults EXCEPT ![r] = Append(@, Head(queue[r]))]
    /\ queue' = [queue EXCEPT ![r] = Tail(@)]
    /\ UNCHANGED <<build, rounds, pc, floor, dspId, wgDSP, closed, allDone,
                   winner, agg, wpc, asked, wres, werr, doneCalls, p0Vars,
                   bidVars>>

\* The range loop ends once the channel is closed and empty; the goroutine
\* then sends on allDone.
Finish(r) ==
    /\ agg[r] = "range"
    /\ queue[r] = <<>>
    /\ closed[r]
    /\ allDone[r] < AllDoneCap
    /\ allDone' = [allDone EXCEPT ![r] = @ + 1]
    /\ agg' = [agg EXCEPT ![r] = "finished"]
    /\ UNCHANGED <<build, rounds, pc, floor, dspId, wgDSP, queue, closed,
                   dspResults, winner, wpc, asked, wres, werr, doneCalls,
                   p0Vars, bidVars>>

\* ------------------------------------------------------------ askDSP

\* askDSP up to client.Get: the URL is made and the request is issued.
Ask(r, w) ==
    /\ wpc[r][w] = "start"
    /\ asked' = [asked EXCEPT ![r][w] = makeBidURL(floor[r], w)]
    /\ wpc' = [wpc EXCEPT ![r][w] = "get"]
    /\ UNCHANGED <<build, rounds, pc, floor, dspId, wgDSP, queue, closed,
                   allDone, dspResults, winner, agg, wres, werr, doneCalls,
                   p0Vars, bidVars>>

\* An error check that lets every error through.
ReturnsOnNothing(err) == FALSE

\* if err != nil { return err }
ReturnsOn(err) == err # "nil"

\* client.Get returns an error: the connection failed or the 100 ms
\* timeout of the client ran out.  The worker returns it.
GetFails(r, w) ==
    /\ wpc[r][w] = "get"
    /\ \E err \in GetErrors :
          /\ werr' = [werr EXCEPT ![r][w] = err]
          /\ IF ReturnsOn(err)
             THEN /\ wpc' = [wpc EXCEPT ![r][w] = "exit"]
                  /\ wres' = wres
             ELSE /\ wpc' = [wpc EXCEPT ![r][w] = "send"]
                  /\ wres' = [wres EXCEPT ![r][w] = [DSPId |-> w, BidPrice |-> 0]]
    /\ UNCHANGED <<build, rounds, pc, floor, dspId, wgDSP, queue, closed,
                   allDone, dspResults, winner, agg, asked, doneCalls, p0Vars,
                   bidVars>>

\* client.Get returns the response HandlerBid wrote (how long the handler
\* slept shows here only in whether the client timed out).  ioutil.ReadAll reads
\* the body (cut: the timeout ran out while reading, its error is dropped
\* and the bytes read so far are kept) and json.Unmarshal parses it.  A
\* parsed price goes on to the send; an unparsable body is returned as the
\* error.
GetResponds(r, w) ==
    /\ wpc[r][w] = "get"
    /\ \E randFloat \in RandFloat64, cut \in BOOLEAN :
          LET answer == BidAnswer(Query(asked[r][w]), randFloat)
              bidRespBytes == IF cut THEN [kind |-> "partial"] ELSE answer.body
              resp == Unmarshal(bidRespBytes)
          IN  IF ReturnsOn(resp.err)
              THEN /\ werr' = [werr EXCEPT ![r][w] = resp.err]
                   /\ wpc' = [wpc EXCEPT ![r][w] = "exit"]
                   /\ wres' = wres
              ELSE /\ wres' = [wres EXCEPT ![r][w] =
                                  [DSPId |-> w, BidPrice |-> resp.Price]]
                   /\ wpc' = [wpc EXCEPT ![r][w] = "send"]
                   /\ werr' = werr
    /\ UNCHANGED <<build, rounds, pc, floor, dspId, wgDSP, queue, closed,
                   allDone, dspResults, winner, agg, asked, doneCalls, p0Vars,
                   bidVars>>

\* qDSPResults <- DspResult{...}: the send waits for room in the buffer.
\* A send on a closed channel panics; the deferred wg.Done still runs.
Send(r, w) ==
    /\ wpc[r][w] = "send"
    /\ IF closed[r]
       THEN /\ werr' = [werr EXCEPT ![r][w] = "send on closed channel"]
            /\ queue' = queue
       ELSE /\ Len(queue[r]) < QueueCap
            /\ queue' = [queue EXCEPT ![r] = Append(@, wres[r][w])]
            /\ werr' = werr
    /\ wpc' = [wpc EXCEPT ![r][w] = "exit"]
    /\ UNCHANGED <<build, rounds, pc, floor, dspId, wgDSP, closed, allDone,
                   dspResults, winner, agg, asked, wres, doneCalls, p0Vars,
                   bidVars>>

\* wg.Done() as the last statement of askDSP instead of a deferred call:
\* the early returns skip it.
DoneOnlyAtTheEnd(err) == IF err = "nil" THEN 1 ELSE 0

\* How many times the worker calls wg.Done on its way out: defer wg.Done()
\* is the first statement of askDSP, so once whatever it returns.
DeferredDone(err) == 1

\* A worker that starts over after an error instead of returning.
ExitOrRetry(r, w) ==
    /\ wpc[r][w] = "exit"
    /\ IF werr[r][w] # "nil"
       THEN /\ wpc' = [wpc EXCEPT ![r][w] = "start"]
            /\ werr' = [werr EXCEPT ![r][w] = "nil"]
            /\ UNCHANGED <<wgDSP, doneCalls>>
       ELSE /\ wgDSP' = [wgDSP EXCEPT ![r] = @ - 1]
            /\ doneCalls' = [doneCalls EXCEPT ![r][w] = @ + 1]
            /\ wpc' = [wpc EXCEPT ![r][w] = "done"]
            /\ werr' = werr
    /\ UNCHANGED <<build, rounds, pc, floor, dspId, queue, closed, allDone,
                   dspResults, winner, agg, asked, wres, p0Vars, bidVars>>

\* The worker returns and its deferred wg.Done() runs.
Exit(r, w) ==
    /\ wpc[r][w] = "exit"
    /\ wgDSP' = [wgDSP EXCEPT ![r] = @ - DeferredDone(werr[r][w])]
    /\ doneCalls' = [doneCalls EXCEPT ![r][w] = @ + DeferredDone(werr[r][w])]
    /\ wpc' = [wpc EXCEPT ![r][w] = "done"]
    /\ UNCHANGED <<build, rounds, pc, floor, dspId, queue, closed, allDone,
                   dspResults, winner, agg, asked, wres, werr, p0Vars, bidVars>>

\* ------------------------------------------------------------ part_000

\* part_000, HandlerAuction: one turn of the loop, wg.Add(1) and
\* go askDSP(&wg, &client, dspId).
P0FanOut ==
    /\ build = "part_000"
    /\ p0pc = "FanOut"
    /\ p0dspId < P0LoopEnd
    /\ p0wg' = p0wg + 1
    /\ p0wpc' = [p0wpc EXCEPT ![p0dspId] = "start"]
    /\ p0dspId' = p0dspId + 1
    /\ p0pc' = IF p0dspId + 1 < P0LoopEnd THEN "FanOut" ELSE "Wait"
    /\ UNCHANGED <<build, rounds, aucVars, p0floor, p0asked, p0doneCalls, bidVars>>

\* part_000, askDSP up to client.Get: the worker draws its own floor price.
P0Ask(w) ==
    /\ p0wpc[w] = "start"
    /\ \E randFloat \in RandFloat64 :
          /\ p0floor' = [p0floor EXCEPT ![w] = randFloat * 10]
          /\ p0asked' = [p0asked EXCEPT ![w] = makeBidURL(randFloat * 10, w)]
    /\ p0wpc' = [p0wpc EXCEPT ![w] = "get"]
    /\ UNCHANGED <<build, rounds, aucVars, p0pc, p0dspId, p0wg, p0doneCalls, bidVars>>

\* part_000: client.Get returns, with an error or a response; the worker
\* logs the one or the other and returns.
P0GetReturns(w) ==
    /\ p0wpc[w] = "get"
    /\ p0wpc' = [p0wpc EXCEPT ![w] = "exit"]
    /\ UNCHANGED <<build, rounds, aucVars, p0pc, p0dspId, p0wg, p0floor,
                   p0asked, p0doneCalls, bidVars>>

\* part_000: the deferred wg.Done() runs.
P0Exit(w) ==
    /\ p0wpc[w] = "exit"
    /\ p0wg' = p0wg - 1
    /\ p0doneCalls' = [p0doneCalls EXCEPT ![w] = @ + 1]
    /\ p0wpc' = [p0wpc EXCEPT ![w] = "done"]
    /\ UNCHANGED <<build, rounds, aucVars, p0pc, p0dspId, p0floor, p0asked, bidVars>>

\* part_000: wg.Wait() returns and the handler ends.
P0Wait ==
    /\ p0pc = "Wait"
    /\ p0wg = 0
    /\ p0pc' = "Done"
    /\ UNCHANGED <<build, rounds, aucVars, p0dspId, p0wg, p0wpc, p0floor,
                   p0asked, p0doneCalls, bidVars>>

\* ------------------------------------------------------------ GET /bid

\* The characters query parameters are drawn from.
Alphabet == {"0", "1", "4", ".", "-"}

StringsUpTo(n) == UNION {[1..k -> Alphabet] : k \in 0..n}

\* Longer dsp parameters of note: 1<<32 (past ParseUint's range), 1<<32 - 1
\* and numbers with a stray character.
DspLongStrings ==
    { <<"4", "2", "9", "4", "9", "6", "7", "2", "9", "6">>,
      <<"4", "2", "9", "4", "9", "6", "7", "2", "9", "5">>,
      <<"2", ",", "5">>,
      <<"+", "2">>,
      <<" ", "2">> }

\* Longer p parameters of note: the names ParseFloat reads as values, and
\* near misses of them.
PLongStrings ==
    { <<"2", ",", "5">>,
      <<"N", "a", "N">>,
      <<"+", "n", "a", "n">>,
      <<"I", "n", "f">>,
      <<"-", "i", "n", "f">>,
      <<"i", "n", "f", "i">>,
      <<"+", "2", ".", "5">> }

DspInputs == StringsUpTo(MaxLen) \cup DspLongStrings \cup {Missing}

PInputs == StringsUpTo(MaxLen) \cup PLongStrings \cup {Missing}

\* A GET /bid request arrives.
BidRequest ==
    /\ bidpc = "idle"
    /\ \E d \in DspInputs, p \in PInputs : bidQuery' = [dsp |-> d, p |-> p]
    /\ bidpc' = "received"
    /\ UNCHANGED <<build, rounds, aucVars, p0Vars, bidReply>>

\* HandlerBid answers it.
BidRespond ==
    /\ bidpc = "received"
    /\ \E randFloat \in RandFloat64, randIntn \in RandIntn :
          bidReply' = HandlerBid(bidQuery, randFloat, randIntn)
    /\ bidpc' = "answered"
    /\ UNCHANGED <<build, rounds, aucVars, p0Vars, bidQuery>>

\* ------------------------------------------------------------ specifications

Next ==
    \/ \E r \in rounds : Start(r)
    \/ \E r \in rounds : FanOut(r)
    \/ \E r \in rounds : Wait(r)
    \/ \E r \in rounds : Close(r)
    \/ \E r \in rounds : AwaitDone(r)
    \/ \E r \in rounds : Select(r)
    \/ \E r \in rounds : Receive(r)
    \/ \E r \in rounds : Finish(r)
    \/ \E r \in rounds, w \in DSPs : Ask(r, w)
    \/ \E r \in rounds, w \in DSPs : GetFails(r, w)
    \/ \E r \in rounds, w \in DSPs : GetResponds(r, w)
    \/ \E r \in rounds, w \in DSPs : Send(r, w)
    \/ \E r \in rounds, w \in DSPs : Exit(r, w)
    \/ P0FanOut
    \/ P0Wait
    \/ \E w \in DSPs : P0Ask(w)
    \/ \E w \in DSPs : P0GetReturns(w)
    \/ \E w \in DSPs : P0Exit(w)

\* One /auction request, served by main.go or by part_000.
Spec == Init /\ [][Next]_vars

BidInit == Init /\ build = "main.go"

BidNext == BidRequest \/ BidRespond

\* One /bid request.
BidSpec == BidInit /\ [][BidNext]_vars

\* The goroutines of a round, for the fairness the Go scheduler gives them;
\* client.Get returns within the client's timeout.
Orchestrator(r) ==
    /\ r \in rounds
    /\ Start(r) \/ FanOut(r) \/ Wait(r) \/ Close(r) \/ AwaitDone(r) \/ Select(r)

Aggregator(r) == r \in rounds /\ (Receive(r) \/ Finish(r))

Worker(r, w) ==
    /\ r \in rounds
    /\ Ask(r, w) \/ GetFails(r, w) \/ GetResponds(r, w) \/ Send(r, w) \/ Exit(r, w)

P0Worker(w) == P0Ask(w) \/ P0GetReturns(w) \/ P0Exit(w)

Fairness ==
    /\ \A r \in AllRounds : WF_vars(Orchestrator(r)) /\ WF_vars(Aggregator(r))
    /\ \A r \in AllRounds, w \in DSPs : WF_vars(Worker(r, w))
    /\ WF_vars(P0FanOut \/ P0Wait)
    /\ \A w \in DSPs : WF_vars(P0Worker(w))

\* One /auction request under fair scheduling.
FairSpec == Init /\ [][Next]_vars /\ Fairness

\* A second GET /auction arrives while the first is being served: net/http
\* runs HandlerAuction again, in a goroutine of its own.
Arrive ==
    /\ build = "main.go"
    /\ rounds = {1}
    /\ rounds' = AllRounds
    /\ UNCHANGED <<build, aucVars, p0Vars, bidVars>>

\* The bidders whose call is answered in the two-round specification: all
\* of them in the first round, bidder 1 alone in the second.
TwoRoundAnswered(r) == IF r = 1 THEN DSPs ELSE {1}

\* The draws of the two-round specification: round r draws RandSamples[r]
\* for its floor; a call is answered in full or refused, as
\* TwoRoundAnswered says; and every offset drawn is 0, so that an offer is
\* the floor of its round rounded to hundredths.
TwoRoundDraws ==
    \A r \in AllRounds :
        /\ pc[r] # "Start" => floor[r] = RandSamples[r] * 10
        /\ \A w \in TwoRoundAnswered(r) :
              /\ werr[r][w] = "nil"
              /\ wres[r][w] # NoResult =>
                    2 * Abs(wres[r][w].BidPrice - floor[r]) <= Scale \div 100
        /\ \A w \in DSPs \ TwoRoundAnswered(r) :
              /\ werr[r][w] \in {"nil", "connection refused"}
              /\ wres[r][w] = NoResult

TwoNext ==
    \/ Arrive
    \/ \E r \in rounds : Start(r) /\ TwoRoundDraws'
    \/ \E r \in rounds : FanOut(r)
    \/ \E r \in rounds : Wait(r)
    \/ \E r \in rounds : Close(r)
    \/ \E r \in rounds : AwaitDone(r)
    \/ \E r \in rounds : Select(r)
    \/ \E r \in rounds : Receive(r)
    \/ \E r \in rounds : Finish(r)
    \/ \E r \in rounds, w \in DSPs : Ask(r, w)
    \/ \E r \in rounds, w \in DSPs : GetFails(r, w) /\ TwoRoundDraws'
    \/ \E r \in rounds, w \in DSPs : GetResponds(r, w) /\ TwoRoundDraws'
    \/ \E r \in rounds, w \in DSPs : Send(r, w)
    \/ \E r \in rounds, w \in DSPs : Exit(r, w)

\* Two overlapping /auction requests served by main.go.
TwoSpec == BidInit /\ [][TwoNext]_vars

\* ------------------------------------------------------------ properties

\* The handler of round r has ended: it returned or it panicked.
Ended(r) == pc[r] \in {"Done", "Failed", "Panicked"}

\* The elements of a sequence.
Range(seq) == {seq[i] : i \in DOMAIN seq}

\* All orders of the elements of a sequence.
Orders(seq) ==
    {[i \in DOMAIN seq |-> seq[f[i]]] :
        f \in {g \in [DOMAIN seq -> DOMAIN seq] : \A i, j \in DOMAIN seq :
                                                    g[i] = g[j] => i = j}}

\* The winner HandlerAuction reports for results that arrived in order b.
WinnerOf(b) == Sort(b)[WinnerIndex(Sort(b))]

\* C1: when every worker of a round failed or timed out, so that
\* dspResults is empty after the drain, the handler ends with the
\* NoRespondents outcome (Failed) and never indexes the empty collection.
C1_NoRespondentsReported ==
    \A r \in rounds :
        /\ pc[r] # "Panicked"
        /\ Ended(r) /\ dspResults[r] = <<>> => pc[r] = "Failed"

\* C2: the reported winner of a round with results is one of dspResults
\* and no collected result has a higher BidPrice; offers 10.20, 15.70 and
\* 12.10 from bidders 1, 2 and 3 give bidder 2 with 15.70.
C2_WinnerIsMaximum ==
    /\ \A r \in rounds :
          pc[r] = "Done" =>
              /\ dspResults[r] # <<>>
              /\ winner[r] \in Range(dspResults[r])
              /\ \A x \in Range(dspResults[r]) : x.BidPrice <= winner[r].BidPrice
    /\ WinnerOf(<<[DSPId |-> 1, BidPrice |-> 1020000],
                  [DSPId |-> 2, BidPrice |-> 1570000],
                  [DSPId |-> 3, BidPrice |-> 1210000]>>)
           = [DSPId |-> 2, BidPrice |-> 1570000]

\* A round ended with all three results, the winner strictly above the
\* lowest offer.
C2_Witness ==
    \E r \in rounds :
        /\ pc[r] = "Done"
        /\ Len(dspResults[r]) = MaxDSP
        /\ dspResults[r][1].BidPrice < winner[r].BidPrice
        /\ winner[r].DSPId = 1

\* C3: when several collected results share the highest BidPrice, the
\* winner is the one of them with the lowest DSPId, whatever the order of
\* arrival.
C3_TieToLowestId ==
    \A r \in rounds :
        pc[r] = "Done" =>
            \A x \in Range(dspResults[r]) :
                x.BidPrice = winner[r].BidPrice => winner[r].DSPId <= x.DSPId

\* C4: the winner depends only on the set of delivered results: every
\* other order of arrival of the same results gives the same winner.
C4_OrderIndependent ==
    \A r \in rounds :
        pc[r] = "Done" =>
            \A b \in Orders(dspResults[r]) : WinnerOf(b) = winner[r]

\* The workers of round r that have returned, and those that were started.
Exited(r) == {w \in DSPs : wpc[r][w] = "done"}

Running(r) == {w \in DSPs : wpc[r][w] \in {"start", "get", "send", "exit"}}

P0Exited == {w \in DSPs : p0wpc[w] = "done"}

P0Running == {w \in DSPs : p0wpc[w] \in {"start", "get", "exit"}}

\* C5: every askDSP worker calls wg.Done exactly once, whichever way it
\* returns (a failed or timed-out Get, an unparsable body, a delivered
\* result); the WaitGroup counter is never negative, counts the workers
\* still running, and is zero once all MaxDSP workers have returned.  This
\* holds of main.go and of part_000.
C5_DoneExactlyOnce ==
    /\ \A r \in rounds :
          /\ wgDSP[r] >= 0
          /\ wgDSP[r] = Cardinality(Running(r))
          /\ \A w \in DSPs :
                doneCalls[r][w] = IF w \in Exited(r) THEN 1 ELSE 0
          /\ Exited(r) = DSPs => wgDSP[r] = 0
    /\ p0wg >= 0
    /\ p0wg = Cardinality(P0Running)
    /\ \A w \in DSPs : p0doneCalls[w] = IF w \in P0Exited THEN 1 ELSE 0
    /\ P0Exited = DSPs => p0wg = 0

\* All workers of a round have returned, one after a timeout, one after a
\* body that did not parse and one after delivering its result.
C5_Witness ==
    \E r \in rounds :
        /\ Exited(r) = DSPs
        /\ wgDSP[r] = 0
        /\ werr[r][1] = "timeout"
        /\ werr[r][2] = "unexpected end of JSON input"
        /\ werr[r][3] = "nil"
        /\ wres[r][3] \in Range(dspResults[r])

\* The workers of round r whose request was answered and parsed.
Succeeded(r) ==
    {w \in DSPs : wpc[r][w] \in {"send", "exit", "done"} /\ werr[r][w] = "nil"
                    /\ wres[r][w] # NoResult}

\* The results of round r that were handed to the channel: still in its
\* buffer or already appended to dspResults.
HandedOver(r) == Range(queue[r]) \cup Range(dspResults[r])

\* C6: close(queue) runs only after all MaxDSP workers have called wg.Done,
\* and a worker calls wg.Done only after its result, if it has one, was
\* handed to the channel.  So no worker sends on a closed channel, and when
\* the channel is closed no worker still holds a result to send and no
\* result is lost: each is in the buffer or in dspResults.
C6_CloseAfterWorkers ==
    \A r \in rounds :
        /\ closed[r] => \A w \in DSPs : doneCalls[r][w] = 1
        /\ \A w \in DSPs :
              doneCalls[r][w] > 0 /\ w \in Succeeded(r) => wres[r][w] \in HandedOver(r)
        /\ \A w \in DSPs : werr[r][w] # "send on closed channel"
        /\ closed[r] =>
              /\ \A w \in DSPs : wpc[r][w] # "send"
              /\ \A w \in Succeeded(r) : wres[r][w] \in HandedOver(r)
        /\ pc[r] \in {"Select", "Done"} =>
              \A w \in Succeeded(r) : wres[r][w] \in Range(dspResults[r])

\* The channel was closed while the last result was still in its buffer,
\* after all three workers had delivered.
C6_Witness ==
    \E r \in rounds :
        /\ closed[r]
        /\ queue[r] # <<>>
        /\ Succeeded(r) = DSPs
        /\ agg[r] = "range"

\* C7: under fair scheduling every round ends in Done or in Failed,
\* whatever the workers' outcomes: no worker waits for ever on the channel,
\* the barrier is released and the aggregator signals.
C7_ReachesDoneOrFailed ==
    <>(build = "part_000" \/ \A r \in rounds : pc[r] \in {"Done", "Failed"})

\* What the code does achieve: under fair scheduling every round ends, in
\* Done or with the panic of the empty index.
RoundEnds == <>(build = "part_000" \/ \A r \in rounds : Ended(r))

\* Worker t of round r timed out and every other worker got an answer that
\* parsed.
OnlyTimedOut(r, t) ==
    /\ werr[r][t] = "timeout"
    /\ \A w \in DSPs \ {t} : w \in Succeeded(r)

\* C8: when exactly one bidder times out and the others respond, the
\* timed-out bidder never has an entry in dspResults, the round does not
\* fail, and it goes on to end with one of the respondents as its winner.
C8_OneTimeoutStillCompletes ==
    /\ [](\A r \in rounds, t \in DSPs :
            OnlyTimedOut(r, t) =>
                /\ \A x \in Range(dspResults[r]) \cup Range(queue[r]) : x.DSPId # t
                /\ pc[r] \notin {"Failed", "Panicked"}
                /\ pc[r] = "Done" => winner[r].DSPId \in DSPs \ {t})
    /\ \A r \in AllRounds :
          (r \in rounds /\ \E t \in DSPs : OnlyTimedOut(r, t))
              ~> (pc[r] = "Done" /\ winner[r] \in Range(dspResults[r]))

\* A round ended with bidder 2 timed out and bidder 3 the winner over
\* bidder 1.
C8_Witness ==
    \E r \in rounds :
        /\ OnlyTimedOut(r, 2)
        /\ pc[r] = "Done"
        /\ winner[r].DSPId = 3
        /\ Len(dspResults[r]) = MaxDSP - 1
        /\ dspResults[r][1].BidPrice < winner[r].BidPrice

\* The workers whose request has been issued.
Asked(r) == {w \in DSPs : asked[r][w] # NoQuery}

P0Asked == {w \in DSPs : p0asked[w] # NoQuery}

\* C9: a round starts exactly MaxDSP workers, one for each identity
\* 1..MaxDSP in turn, and every bid request of the round carries its
\* worker's identity and the one floor price drawn for the round.  Stated
\* of main.go and of part_000.
C9_OneFloorPerRound ==
    /\ \A r \in rounds :
          /\ pc[r] # "Start" => \A w \in DSPs : wpc[r][w] # "none" <=> w < dspId[r]
          /\ pc[r] \notin {"Start", "FanOut"} => dspId[r] = MaxDSP + 1
          /\ \A w \in Asked(r) :
                /\ Query(asked[r][w]).dsp = Itoa(w)
                /\ Query(asked[r][w]).p = FormatFloat3(floor[r])
          /\ \A v, w \in Asked(r) : asked[r][v].p = asked[r][w].p
    /\ \A w \in DSPs : p0wpc[w] # "none" <=> w < p0dspId
    /\ p0pc # "FanOut" => p0dspId = MaxDSP + 1
    /\ \A w \in P0Asked : Query(p0asked[w]).dsp = Itoa(w)
    /\ \A v, w \in P0Asked : p0asked[v].p = p0asked[w].p

\* main.go alone does what C9 says.
OneFloorPerRoundMain == build = "main.go" => C9_OneFloorPerRound

\* A dsp parameter HandlerBid is to accept: present, decimal digits only,
\* and a value in 1..MaxDSP.
DspValid(query) ==
    /\ query.dsp # Missing
    /\ query.dsp # <<>>
    /\ \A i \in DOMAIN query.dsp : IsDigit(query.dsp[i])
    /\ DecGreater(query.dsp, <<"0">>)
    /\ ~DecGreater(query.dsp, Itoa(MaxDSP))

\* A p parameter HandlerBid is to accept: present and read by ParseFloat.
PValid(query) == query.p # Missing /\ ParseFloat(query.p).err = "nil"

\* The response carries a price.
HasPrice(reply) == reply.body.kind = "json" /\ reply.body.price # <<>>

\* C10 as stated: HandlerBid answers 400, with no price computed and none
\* in the body, when dsp is missing, no integer or outside [1,MaxDSP] or
\* when p is missing or unparsable, and answers every other request with
\* 200 and a price.
C10_RejectsOrPrices ==
    bidpc = "answered" =>
        IF DspValid(bidQuery) /\ PValid(bidQuery)
        THEN bidReply.status = 200 /\ HasPrice(bidReply)
        ELSE bidReply.status = 400 /\ ~bidReply.computed /\ ~HasPrice(bidReply)

\* C10 amended: as C10, but a request that passes both checks gets 200 and
\* a price only when the price is a finite number; when p reads as NaN or
\* as an infinity the price cannot be encoded and the answer is 500
\* without a price.
C10_RejectsPricesOrFailsEncoding ==
    bidpc = "answered" =>
        IF DspValid(bidQuery) /\ PValid(bidQuery)
        THEN IF ParseFloat(bidQuery.p).val.k = "fin"
             THEN bidReply.status = 200 /\ HasPrice(bidReply)
             ELSE bidReply.status = 500 /\ ~HasPrice(bidReply)
        ELSE bidReply.status = 400 /\ ~bidReply.computed /\ ~HasPrice(bidReply)

\* A request with a valid dsp and p = NaN was answered 500.
C10_Witness ==
    /\ bidpc = "answered"
    /\ bidQuery = [dsp |-> <<"1">>, p |-> <<"N", "a", "N">>]
    /\ bidReply.status = 500

\* The floor price worker w of round r sent, as HandlerBid reads it from
\* the p parameter, and the price the worker got back.
SentFloor(r, w) == ParseFloat(Query(asked[r][w]).p).val.v

GotPrice(r, w) == wres[r][w].BidPrice

\* The price is a whole number of hundredths.
IsHundredths(v) == v % (Scale \div 100) = 0

\* C11: for every worker of a round whose request (valid dsp, floor >= 0
\* written with three decimals) was answered with a price, the price is
\* at least the floor sent, at most the floor plus 100, and a multiple of
\* 0.01.
C11_PriceWithinFloorRange ==
    \A r \in rounds : \A w \in Succeeded(r) :
        SentFloor(r, w) >= 0 =>
            /\ SentFloor(r, w) <= GotPrice(r, w)
            /\ GotPrice(r, w) <= SentFloor(r, w) + 100 * Scale
            /\ IsHundredths(GotPrice(r, w))

\* What the rounding to hundredths does keep: the price is a multiple of
\* 0.01 and within half a hundredth of [floor, floor + 100].
PriceNearFloorRange ==
    \A r \in rounds : \A w \in Succeeded(r) :
        /\ IsHundredths(GotPrice(r, w))
        /\ 2 * (SentFloor(r, w) - GotPrice(r, w)) <= Scale \div 100
        /\ 2 * (GotPrice(r, w) - SentFloor(r, w) - 100 * Scale) <= Scale \div 100

\* The aggregator of round r sends its completion signal in this step.
Signals(r) == allDone'[r] > allDone[r]

\* The handler of round r is at the statements that read dspResults
\* (lines 125 to 131) or past them.
Reading(r) == pc[r] \in {"Select", "Done", "Panicked"}

\* The signal is sent once, by the aggregator's Finish, with the channel
\* closed and empty; nothing is appended after it; and the handler reads
\* dspResults only after it.
SignalThenRead(r) ==
    /\ Signals(r) => Finish(r) /\ closed[r] /\ queue[r] = <<>>
    /\ agg[r] = "finished" => ~Signals(r)
    /\ agg[r] = "finished" => Len(dspResults'[r]) = Len(dspResults[r])
    /\ Reading(r) \/ Reading(r)' => agg[r] = "finished"

\* C12: every step that changes dspResults is a step of the aggregator
\* goroutine (its append); the aggregator signals exactly once, only with
\* the channel closed and drained, and appends nothing afterwards; the
\* handler reads dspResults only after the signal.
C12_AggregatorOnlyWriter ==
    [][\A r \in rounds :
          /\ dspResults'[r] # dspResults[r] => Receive(r)
          /\ SignalThenRead(r)]_vars

\* What the code keeps of it: up to the signal only the aggregator writes
\* dspResults, and afterwards only the handler does (its sort), so no read
\* overlaps a write of the other goroutine.
NoReadWriteOverlap ==
    [][\A r \in rounds :
          /\ dspResults'[r] # dspResults[r] =>
                \/ Receive(r) /\ ~Reading(r)
                \/ Select(r) /\ agg[r] = "finished"
          /\ SignalThenRead(r)]_vars

\* The positions of dspResults that hold a result of bidder w.
EntriesOf(r, w) == {i \in DOMAIN dspResults[r] : dspResults[r][i].DSPId = w}

\* C13: when the handler comes to the winner selection, dspResults holds
\* exactly one entry for each worker whose Get succeeded and whose body
\* parsed, with that worker's identity and the price of its response, and
\* no entry for a worker whose Get failed or timed out or whose body did
\* not parse: as many entries as such workers, none lost, none made up.
C13_ExactlyTheDelivered ==
    \A r \in rounds :
        Reading(r) =>
            /\ \A w \in Succeeded(r) :
                  /\ Cardinality(EntriesOf(r, w)) = 1
                  /\ \A i \in EntriesOf(r, w) : dspResults[r][i] = wres[r][w]
                  /\ wres[r][w].DSPId = w
            /\ \A w \in DSPs \ Succeeded(r) :
                  /\ EntriesOf(r, w) = {}
                  /\ werr[r][w] # "nil"
            /\ Len(dspResults[r]) = Cardinality(Succeeded(r))

\* The handler is at the winner selection with the results of bidders 3
\* and 1, in that order of arrival; bidder 2 got a body that did not parse.
C13_Witness ==
    \E r \in rounds :
        /\ pc[r] = "Select"
        /\ Succeeded(r) = {1, 3}
        /\ werr[r][2] = "unexpected end of JSON input"
        /\ Len(dspResults[r]) = 2
        /\ dspResults[r][1].DSPId = 3
        /\ dspResults[r][2].DSPId = 1
        /\ dspResults[r][1].BidPrice > 0

\* Sequence t is s with one element appended at the end.
Appended(s, t) == Len(t) = Len(s) + 1 /\ SubSeq(t, 1, Len(s)) = s

\* C14: in every step of a round dspResults is unchanged or is the
\* previous sequence with one element appended at the end: nothing is
\* removed, overwritten or reordered, the winner selection included.
C14_AppendOnly ==
    [][\A r \in rounds :
          \/ dspResults'[r] = dspResults[r]
          \/ Appended(dspResults[r], dspResults'[r])]_vars

\* What the code keeps of it: a step that neither leaves dspResults alone
\* nor appends to it is the handler's sort, which reorders the elements
\* and neither drops nor adds nor alters one.
OnlySortReorders ==
    [][\A r \in rounds :
          \/ dspResults'[r] = dspResults[r]
          \/ Appended(dspResults[r], dspResults'[r])
          \/ Select(r) /\ dspResults'[r] \in Orders(dspResults[r])]_vars

\* The results of round r in the order the channel accepted them: those
\* already appended, then those still in the buffer.
Arrivals(r) == dspResults[r] \o queue[r]

\* C15: results are appended in the order the channel accepted them.  Up
\* to the aggregator's signal, a send that completes puts its result after
\* all results sent before it, and no other step changes the order of
\* arrival; the signal is sent with the buffer empty, so at that moment
\* dspResults holds the results in the order their sends completed.  That
\* order need not be the order of the identities.
C15_ArrivalOrder ==
    [][\A r \in rounds :
          agg[r] = "range" =>
              /\ \A w \in DSPs :
                    Send(r, w) => Arrivals(r)' = Append(Arrivals(r), wres[r][w])
              /\ (\A w \in DSPs : ~Send(r, w)) => Arrivals(r)' = Arrivals(r)
              /\ Signals(r) => dspResults'[r] = Arrivals(r)]_vars

\* The aggregator has signalled with three results that arrived in the
\* order 3, 1, 2 of identities.
C15_Witness ==
    \E r \in rounds :
        /\ agg[r] = "finished"
        /\ pc[r] = "AwaitDone"
        /\ Len(dspResults[r]) = MaxDSP
        /\ dspResults[r][1].DSPId = 3
        /\ dspResults[r][2].DSPId = 1
        /\ dspResults[r][3].DSPId = 2

\* C16: in every state of a round dspResults has at most MaxDSP entries,
\* every entry's DSPId is in 1..MaxDSP, no DSPId occurs twice and every
\* entry's BidPrice is at least 0.
C16_ResultsWellFormed ==
    \A r \in rounds :
        /\ Len(dspResults[r]) <= MaxDSP
        /\ \A i \in DOMAIN dspResults[r] :
              /\ dspResults[r][i].DSPId \in DSPs
              /\ dspResults[r][i].BidPrice >= 0
        /\ \A i, j \in DOMAIN dspResults[r] :
              dspResults[r][i].DSPId = dspResults[r][j].DSPId => i = j

\* All MaxDSP results have been collected, one of them priced 0 and one
\* priced above the floor.
C16_Witness ==
    \E r \in rounds :
        /\ Len(dspResults[r]) = MaxDSP
        /\ \E i \in DOMAIN dspResults[r] : dspResults[r][i].BidPrice = 0
        /\ \E i \in DOMAIN dspResults[r] : dspResults[r][i].BidPrice > floor[r]
        /\ agg[r] = "range"

\* How far a worker has come: not started, started, request issued,
\* about to send, returning, returned.
Stage(position) ==
    CASE position = "none" -> 0
      [] position = "start" -> 1
      [] position = "get" -> 2
      [] position = "send" -> 3
      [] position = "exit" -> 4
      [] position = "done" -> 5

\* C17: within a round each identity is sent at most one bid request.  A
\* worker issues a request only if it has issued none before, a worker
\* never goes back to an earlier statement, whatever its call returned,
\* and the handler starts a worker only for an identity it has not
\* started; a request once issued stays as it is.  The same holds of
\* part_000.
C17_OneRequestPerBidder ==
    [][/\ \A r \in rounds, w \in DSPs :
             /\ Ask(r, w) => asked[r][w] = NoQuery /\ asked'[r][w] # NoQuery
             /\ asked[r][w] # NoQuery => asked'[r][w] = asked[r][w]
             /\ asked'[r][w] # asked[r][w] => Ask(r, w)
             /\ Stage(wpc'[r][w]) >= Stage(wpc[r][w])
             /\ FanOut(r) /\ wpc'[r][w] # wpc[r][w] => wpc[r][w] = "none"
       /\ \A w \in DSPs :
             /\ P0Ask(w) => p0asked[w] = NoQuery /\ p0asked'[w] # NoQuery
             /\ p0asked[w] # NoQuery => p0asked'[w] = p0asked[w]
             /\ Stage(p0wpc'[w]) >= Stage(p0wpc[w])]_vars

\* A round has ended after bidder 1's call was refused, bidder 2's body
\* did not parse and bidder 3's call timed out; each had issued its request.
C17_Witness ==
    \E r \in rounds :
        /\ pc[r] = "Panicked"
        /\ Asked(r) = DSPs
        /\ werr[r][1] = "connection refused"
        /\ werr[r][2] = "unexpected end of JSON input"
        /\ werr[r][3] = "timeout"
        /\ Exited(r) = DSPs

\* Everything HandlerAuction's call for round r holds: its locals, its
\* channels, its aggregator and its workers.
RoundState(r) ==
    <<pc[r], floor[r], dspId[r], wgDSP[r], queue[r], closed[r], allDone[r],
      dspResults[r], winner[r], agg[r], wpc[r], asked[r], wres[r], werr[r],
      doneCalls[r]>>

\* Result x was produced by a worker of round r: it is what the worker of
\* its identity holds, got for a request that carried the floor of round r.
ProducedIn(r, x) ==
    /\ x.DSPId \in DSPs
    /\ x = wres[r][x.DSPId]
    /\ Query(asked[r][x.DSPId]).p = FormatFloat3(floor[r])

\* Some goroutine of round r can take a step.
CanStep(r) ==
    \/ ENABLED Orchestrator(r)
    \/ ENABLED Aggregator(r)
    \/ \E w \in DSPs : ENABLED Worker(r, w)

\* C18: of two overlapping rounds each has its own floor, channel, barrier
\* and dspResults.  Every result in a round's channel or dspResults was
\* produced by a worker of that round; a round that has not ended can take
\* a step whatever the other round has done (closed its channel, ended);
\* a round's winner is the winner of its own results; and no step of one
\* round, its close and its end included, changes anything of the other.
C18_RoundsIsolated ==
    /\ [](\A r \in rounds :
            /\ \A x \in HandedOver(r) : ProducedIn(r, x)
            /\ ~Ended(r) => CanStep(r)
            /\ pc[r] = "Done" =>
                  /\ winner[r] = WinnerOf(dspResults[r])
                  /\ ProducedIn(r, winner[r]))
    /\ [][\A r, s \in AllRounds :
            r # s => RoundState(r)' = RoundState(r) \/ RoundState(s)' = RoundState(s)]_vars

\* The second round, two of its calls refused, has ended with its own
\* winner while the first, which began earlier, still waits for its
\* workers with one result collected and one in the channel.
C18_Witness ==
    /\ rounds = AllRounds
    /\ pc[2] = "Done"
    /\ closed[2]
    /\ winner[2].BidPrice > 0
    /\ werr[2][3] = "connection refused"
    /\ pc[1] = "Wait"
    /\ ~closed[1]
    /\ Len(dspResults[1]) = 1
    /\ queue[1] # <<>>
    /\ dspResults[1][1].BidPrice = 0

\* The delays 10, 20, ..., 90 ms.
Delays == {10 * k : k \in 1..DelaySteps}

=============================================================================
